---- MODULE Spec2Model ----
(***************************************************************************)
(* Model of src/lib/server.ts: the express application built by server():  *)
(* the production / development renderer handle, the route table in        *)
(* registration order (compression, favicon, four static mounts, the       *)
(* route-cache micro-cache, the catch-all render handler), and the         *)
(* per-request render flow with its promise callbacks.                     *)
(*                                                                         *)
(* JavaScript runs one job at a time.  Jobs queued by promises             *)
(* (microtasks) run before the next I/O event, so the events an HTTP       *)
(* request, a development rebuild or a cache expiry are taken only when    *)
(* the microtask queue is empty.                                           *)
(***************************************************************************)
EXTENDS Integers, Sequences, FiniteSets, TLC

\* ----------------------------------------------------------------- bounds
MaxReq == 2         \* requests received in one behaviour
MaxBuilds == 2      \* successful development builds in one behaviour

\* ------------------------------------------------------- program constants
StatusOK == 200             \* express's default statusCode, kept by res.send(html)
StatusFound == 302          \* express's res.redirect(url) default status
StatusNotFound == 404       \* err.code === 404 / res.status(404)
StatusError == 500          \* res.status(500)

\* --------------------------------------------------------------- JS values
NoBody == "<no body>"
NoUrl == "<no request>"
TextHtml == "text/html"
NoHeader == "<unset>"
RedirectBody == "Found. Redirecting"

\* A plain object is a record of its own enumerable properties.
EmptyObject == [k \in {} |-> ""]

\* Object.assign(target, source): every own enumerable property of source is
\* copied over target's; target's other properties stay.
ObjectAssign(target, source) ==
    [k \in (DOMAIN target) \cup (DOMAIN source) |->
        IF k \in DOMAIN source THEN source[k] ELSE target[k]]

\* JS truthiness of a property that may be absent (undefined) or a string.
Truthy(o, k) == k \in DOMAIN o /\ o[k] # ""

\* ------------------------------------------------------------ environment
\* The URLs requests are made for: a dynamic page, a static file that is on
\* disk, and a path under a static mount with no file behind it.
PageUrl == "/a"
DistFile == "/dist/app.js"
MissingFile == "/public/none.png"
Urls == {PageUrl, DistFile, MissingFile}

\* The mount path a URL falls under ("" when it is under none).
StaticMount(url) ==
    CASE url = DistFile -> "/dist"
      [] url = MissingFile -> "/public"
      [] OTHER -> ""

\* Whether express.static finds a file for the URL.
FileExists(url) == url = DistFile

\* Failure values a renderer (or a hook) can produce: duck-typed objects with
\* optional url and code properties.
ErrRedirect404 == [url |-> "/foo", code |-> 404, stack |-> "trace"]
Err404 == [code |-> 404, stack |-> "trace"]
ErrPlain == [stack |-> "trace"]
Errs == {ErrRedirect404, Err404, ErrPlain}

\* What config.context(req) does when it is called: returns (or resolves to)
\* an application context, or throws (or rejects with) a failure value.
HookResults ==
    { [kind |-> "value", value |-> [title |-> "Custom"]],
      [kind |-> "throw", err |-> Err404] }

\* setConfig(config): the resolved configuration.
Configs ==
    [ handleError : BOOLEAN,          \* whether config.handleError is defined
      context : HookResults,          \* the behaviour of config.context
      status404 : {"<h1>404</h1>"},
      status500 : {"<h1>500</h1>"} ]

VARIABLES
    isProd,         \* process.env.NODE_ENV === 'production'
    useMicroCache,  \* process.env.MICRO_CACHE !== 'false'
    config,         \* the resolved Config
    renderer,       \* the renderer handle: 0 when unset, else the bundle's build number
    readyPromise,   \* "undefined" (production), "pending" or "resolved"
    readyWaiters,   \* requests whose callback is registered on the pending readyPromise
    microtasks,     \* the promise job queue: <<[kind, r]>>
    cacheStore,     \* route-cache's store: URL -> entry
    nreq,           \* number of requests received
    req             \* per request: the handler's position, req.url and the response

vars == <<isProd, useMicroCache, config, renderer, readyPromise, readyWaiters,
          microtasks, cacheStore, nreq, req>>

Reqs == 1..MaxReq

NoEntry == [kind |-> "none"]

NoOutcome == [kind |-> "none"]

\* A fresh response object and request bookkeeping.
NewReq ==
    [ pc |-> "idle",            \* idle, waitReady, queuedRender, queuedThen,
                                \* rendering, done, crashed
      url |-> NoUrl,
      via |-> <<>>,             \* the layers of the route table the request entered
      wrapped |-> FALSE,        \* route-cache replaced res.send / res.redirect
      by |-> "none",            \* the layer that produced the response
      res |-> [ statusCode |-> StatusOK, contentType |-> NoHeader,
                location |-> NoHeader, body |-> NoBody, sent |-> 0,
                typeAtSend |-> NoHeader ],
      context |-> EmptyObject,  \* the context handed to renderToString
      used |-> 0,               \* the renderer renderToString was invoked on
      waited |-> FALSE,         \* the handler found readyPromise pending
      outcome |-> NoOutcome,    \* the (err, html) the renderer called back with
      hookCalls |-> <<>>,       \* arguments of the calls of config.handleError
      errlog |-> <<>>,          \* console.error lines
      infolog |-> <<>> ]        \* console.log lines

\* ------------------------------------------------------- express response
\* res.setHeader('Content-Type', 'text/html')
SetContentType(q) == [q EXCEPT !.res.contentType = TextHtml]

\* res.status(code)
ResStatus(q, code) == [q EXCEPT !.res.statusCode = code]

\* res.send(body) as express implements it: one terminal response.
OriginalSend(q, body, layer) ==
    [q EXCEPT !.res.body = body,
              !.res.sent = @ + 1,
              !.res.typeAtSend = q.res.contentType,
              !.by = layer]

\* res.redirect(url) as express implements it: status 302, a Location header
\* and express's own short body.
OriginalRedirect(q, url, layer) ==
    [q EXCEPT !.res.statusCode = StatusFound,
              !.res.location = url,
              !.res.body = RedirectBody,
              !.res.sent = @ + 1,
              !.res.typeAtSend = q.res.contentType,
              !.by = layer]

\* ------------------------------------------------------------ micro-cache
\* Mutant of CacheKey: the key function without the useMicroCache guard.
CacheKeyUnguarded(q) == q.url

\* req => useMicroCache && req.originalUrl: the cache key, or a falsy value
\* ("" stands for false) when the micro-cache is switched off.
CacheKey(q) == IF useMicroCache THEN q.url ELSE ""

\* What a send through route-cache's replaced res.send leaves in the store:
\* the body, under the request's key, unless the status is an error status.
StoreOnSend(store, q, body) ==
    IF q.wrapped /\ q.res.statusCode < 400
    THEN [store EXCEPT ![q.url] = [kind |-> "body", body |-> body]]
    ELSE store

\* What a redirect through route-cache's replaced res.redirect leaves.
StoreOnRedirect(store, q, url) ==
    IF q.wrapped
    THEN [store EXCEPT ![q.url] = [kind |-> "redirect", url |-> url]]
    ELSE store

\* The middleware microcache.cacheSeconds(1, key) returns: a falsy key skips
\* the cache; a stored entry answers the request; otherwise res.send and
\* res.redirect are replaced and the request goes on.
\* Returns the request and whether next() was called.
MicroCache(q) ==
    LET key == CacheKey(q) IN
    IF key = "" THEN [q |-> q, next |-> TRUE]
    ELSE IF cacheStore[key].kind = "redirect"
    THEN [q |-> [OriginalRedirect(q, cacheStore[key].url, "microcache")
                    EXCEPT !.pc = "done"],
          next |-> FALSE]
    ELSE IF cacheStore[key].kind = "body"
    THEN [q |-> [OriginalSend(SetContentType(q), cacheStore[key].body, "microcache")
                    EXCEPT !.pc = "done"],
          next |-> FALSE]
    ELSE [q |-> [q EXCEPT !.wrapped = TRUE], next |-> TRUE]

\* ------------------------------------------------------------ static files
\* app.use(mount, express.static(...)): answers when the URL is under the
\* mount and a file is found, and calls next() otherwise.
ServeStatic(q, mount) ==
    IF StaticMount(q.url) = mount /\ FileExists(q.url)
    THEN [q |-> [OriginalSend([q EXCEPT !.res.contentType = "file type"],
                              "file " \o q.url, "static " \o mount)
                    EXCEPT !.pc = "done"],
          next |-> FALSE]
    ELSE [q |-> q, next |-> TRUE]

\* ------------------------------------------------------------- route table
\* Mutant of Layers: the micro-cache registered ahead of the static mounts.
LayersCacheFirst ==
    << [kind |-> "pass", name |-> "compression"],
       [kind |-> "pass", name |-> "favicon"],
       [kind |-> "microcache", name |-> "microcache"],
       [kind |-> "static", name |-> "/dist"],
       [kind |-> "static", name |-> "/public"],
       [kind |-> "static", name |-> "/manifest.json"],
       [kind |-> "static", name |-> "/service-worker.js"],
       [kind |-> "render", name |-> "*"] >>

\* The layers of the application in the order app.use / app.get register them.
Layers ==
    << [kind |-> "pass", name |-> "compression"],
       [kind |-> "pass", name |-> "favicon"],
       [kind |-> "static", name |-> "/dist"],
       [kind |-> "static", name |-> "/public"],
       [kind |-> "static", name |-> "/manifest.json"],
       [kind |-> "static", name |-> "/service-worker.js"],
       [kind |-> "microcache", name |-> "microcache"],
       [kind |-> "render", name |-> "*"] >>

\* Mutant of render: the Content-Type header is not set.
renderNoHeader(q) == [q EXCEPT !.pc = "queuedThen"]

\* render(req, res) up to its first suspension: the content type is set and
\* the callback is queued on the promise Promise.resolve(...) returned.
render(q) == [SetContentType(q) EXCEPT !.pc = "queuedThen"]

\* Mutant of CatchAll: render is registered in development too, with no wait
\* on readyPromise.
CatchAllNoWait(q) == render(q)

\* The handler app.get('*', ...) registers: render itself in production; in
\* development a callback on readyPromise that calls render.
CatchAll(q) ==
    IF isProd THEN render(q)
    ELSE IF readyPromise = "resolved" THEN [q EXCEPT !.pc = "queuedRender"]
    ELSE [q EXCEPT !.pc = "waitReady", !.waited = TRUE]

\* One layer: the request as the layer leaves it, and whether it called next().
RunLayer(L, q0) ==
    LET q == [q0 EXCEPT !.via = Append(@, L.name)] IN
    CASE L.kind = "pass" -> [q |-> q, next |-> TRUE]
      [] L.kind = "static" -> ServeStatic(q, L.name)
      [] L.kind = "microcache" -> MicroCache(q)
      [] L.kind = "render" -> [q |-> CatchAll(q), next |-> FALSE]

\* express's router: the layers in order, from layer i, until one does not
\* call next().
RECURSIVE Dispatch(_, _)
Dispatch(i, q) ==
    IF i > Len(Layers) THEN q
    ELSE LET out == RunLayer(Layers[i], q) IN
         IF out.next THEN Dispatch(i + 1, out.q) ELSE out.q

\* The promise jobs the handler left behind for request r.
Queued(r, q) ==
    CASE q.pc = "queuedThen" -> <<[kind |-> "then", r |-> r]>>
      [] q.pc = "queuedRender" -> <<[kind |-> "render", r |-> r]>>
      [] OTHER -> <<>>

\* ------------------------------------------------------------------ render
\* config.context(req): what the hook produces when it is called.
ContextHook(q) == config.context

\* The value the callback of lines 112-132 receives.  Promise.resolve is
\* handed the arrow function () => config.context(req), not its result: the
\* promise is fulfilled with the function object, the function is never
\* called, and Object.assign reads from it the own enumerable properties of a
\* function object, of which there are none.
ResolvedContext(q) == EmptyObject

\* The defaults the application context is laid over.
DefaultContext(q) == [title |-> "App", url |-> q.url]

\* The callback of Promise.resolve(...).then: the context is merged and
\* renderer.renderToString is called on the handle's current value.  With the
\* handle unset the call throws and the promise render returned is rejected,
\* which nothing handles.
ThenCallback(q) ==
    LET context == ObjectAssign(DefaultContext(q), ResolvedContext(q)) IN
    IF renderer = 0
    THEN [q EXCEPT !.context = context, !.pc = "crashed"]
    ELSE [q EXCEPT !.context = context, !.used = renderer, !.pc = "rendering"]

\* createRenderer(bundle, options): the renderer of a bundle, named by the
\* bundle's build number.
createRenderer(bundle) == bundle

\* The page the renderer of build v renders for a context.
Html(v, context) ==
    "<html build=" \o ToString(v) \o " title=" \o context.title
        \o " url=" \o context.url \o "></html>"

\* Mutant of RendererOf: the handle is read again when the render completes.
RendererOfHandle(q) == renderer

\* The renderer that calls back for request q: the object renderToString was
\* called on.
RendererOf(q) == q.used

\* What a renderer can call back with: (null, html) or (err).
Outcomes(q) ==
    {[kind |-> "html", html |-> Html(RendererOf(q), q.context)]}
        \cup {[kind |-> "err", err |-> e] : e \in Errs}

\* Mutant of handleError: the 404 test ahead of the redirect test.
handleErrorCodeFirst(q, err) ==
    IF "code" \in DOMAIN err /\ err.code = StatusNotFound
    THEN OriginalSend(ResStatus(q, StatusNotFound), config.status404, "*")
    ELSE IF Truthy(err, "url")
    THEN OriginalRedirect(q, err.url, "*")
    ELSE [OriginalSend(ResStatus(q, StatusError), config.status500, "*")
            EXCEPT !.errlog = @ \o <<"error during render : " \o q.url, err.stack>>]

\* const handleError = err => { ... }: the default classification.
handleError(q, err) ==
    IF Truthy(err, "url")
    THEN OriginalRedirect(q, err.url, "*")
    ELSE IF "code" \in DOMAIN err /\ err.code = StatusNotFound
    THEN OriginalSend(ResStatus(q, StatusNotFound), config.status404, "*")
    ELSE [OriginalSend(ResStatus(q, StatusError), config.status500, "*")
            EXCEPT !.errlog = @ \o <<"error during render : " \o q.url, err.stack>>]

\* Mutant of RenderCallback: the custom hook's call does not return, and the
\* default classification runs after it.
RenderCallbackFallThrough(q, o) ==
    IF o.kind = "err"
    THEN IF config.handleError
         THEN handleError([q EXCEPT !.hookCalls = Append(@, o.err)], o.err)
         ELSE handleError(q, o.err)
    ELSE LET sent == OriginalSend(q, o.html, "*") IN
         IF ~isProd THEN [sent EXCEPT !.infolog = Append(@, "whole request")]
         ELSE sent

\* (err, html) => { ... }: the callback handed to renderToString.
RenderCallback(q, o) ==
    IF o.kind = "err"
    THEN IF config.handleError
         THEN [q EXCEPT !.hookCalls = Append(@, o.err)]
         ELSE handleError(q, o.err)
    ELSE LET sent == OriginalSend(q, o.html, "*") IN
         IF ~isProd THEN [sent EXCEPT !.infolog = Append(@, "whole request")]
         ELSE sent

\* The store after the callback ran: route-cache's replacements of res.send
\* and res.redirect record what went through them.
Stored(store, before, after) ==
    IF after.res.sent = before.res.sent THEN store
    ELSE IF after.res.location # NoHeader
    THEN StoreOnRedirect(store, after, after.res.location)
    ELSE StoreOnSend(store, after, after.res.body)

\* ----------------------------------------------------------------- startup
\* server(config): in production the renderer is created at once from the
\* built bundle and there is no readyPromise; in development the renderer is
\* unset until setup-dev-server's first build and readyPromise is pending.
Init ==
    /\ isProd \in BOOLEAN
    /\ useMicroCache \in BOOLEAN
    /\ config \in Configs
    /\ renderer = IF isProd THEN 1 ELSE 0
    /\ readyPromise = IF isProd THEN "undefined" ELSE "pending"
    /\ readyWaiters = <<>>
    /\ microtasks = <<>>
    /\ cacheStore = [u \in Urls |-> NoEntry]
    /\ nreq = 0
    /\ req = [r \in Reqs |-> NewReq]

\* ------------------------------------------------------------------ actions
\* A GET request for url arrives and runs through the route table.
Arrive(url) ==
    /\ microtasks = <<>>
    /\ nreq < MaxReq
    /\ LET r == nreq + 1
           q == Dispatch(1, [req[r] EXCEPT !.url = url])
       IN /\ req' = [req EXCEPT ![r] = q]
          /\ microtasks' = Queued(r, q)
          /\ readyWaiters' = IF q.pc = "waitReady" THEN Append(readyWaiters, r)
                             ELSE readyWaiters
    /\ nreq' = nreq + 1
    /\ UNCHANGED <<isProd, useMicroCache, config, renderer, readyPromise, cacheStore>>

\* The next promise job runs: the callback registered on readyPromise (it
\* calls render), or the callback registered in render.
RunMicrotask ==
    /\ microtasks # <<>>
    /\ LET job == Head(microtasks)
           r == job.r
           q == IF job.kind = "render" THEN render(req[r]) ELSE ThenCallback(req[r])
       IN /\ req' = [req EXCEPT ![r] = q]
          /\ microtasks' = Tail(microtasks) \o
                              (IF job.kind = "render" THEN Queued(r, q) ELSE <<>>)
    /\ UNCHANGED <<isProd, useMicroCache, config, renderer, readyPromise,
                   readyWaiters, cacheStore, nreq>>

\* The renderer calls back for request r, with any outcome o it can produce.
Settle(r) ==
    /\ req[r].pc = "rendering"
    /\ \E o \in Outcomes(req[r]) :
         LET q == [RenderCallback(req[r], o) EXCEPT !.outcome = o, !.pc = "done"]
         IN /\ req' = [req EXCEPT ![r] = q]
            /\ cacheStore' = Stored(cacheStore, req[r], q)
    /\ UNCHANGED <<isProd, useMicroCache, config, renderer, readyPromise,
                   readyWaiters, microtasks, nreq>>

\* (bundle, options) => { renderer = createRenderer(bundle, options) }
OnBundle(bundle) == renderer' = createRenderer(bundle)

\* setup-dev-server finishes a successful build: it hands the new bundle to
\* the callback and, the first time, resolves readyPromise, which queues the
\* callbacks registered on it in registration order.
DevBuild ==
    /\ ~isProd
    /\ microtasks = <<>>
    /\ renderer < MaxBuilds
    /\ OnBundle(renderer + 1)
    /\ readyPromise' = "resolved"
    /\ readyWaiters' = <<>>
    /\ microtasks' = [i \in 1..Len(readyWaiters) |->
                        [kind |-> "render", r |-> readyWaiters[i]]]
    /\ req' = [r \in Reqs |->
                 IF req[r].pc = "waitReady" THEN [req[r] EXCEPT !.pc = "queuedRender"]
                 ELSE req[r]]
    /\ UNCHANGED <<isProd, useMicroCache, config, cacheStore, nreq>>

\* The one second an entry of the micro-cache lives is over.
CacheExpire(u) ==
    /\ microtasks = <<>>
    /\ cacheStore[u] # NoEntry
    /\ cacheStore' = [cacheStore EXCEPT ![u] = NoEntry]
    /\ UNCHANGED <<isProd, useMicroCache, config, renderer, readyPromise,
                   readyWaiters, microtasks, nreq, req>>

Next ==
    \/ \E url \in Urls : Arrive(url)
    \/ RunMicrotask
    \/ \E r \in Reqs : Settle(r)
    \/ DevBuild
    \/ \E u \in Urls : CacheExpire(u)

Spec == Init /\ [][Next]_vars

\* ------------------------------------------------------------------- claims
\* The request reached the catch-all handler.
Reached(q) == q.via # <<>> /\ q.via[Len(q.via)] = "*"

\* The request entered layer a of the route table before layer b.
Before(q, a, b) ==
    \E i, j \in 1..Len(q.via) : i < j /\ q.via[i] = a /\ q.via[j] = b

\* The request entered layer a.
Entered(q, a) == \E i \in 1..Len(q.via) : q.via[i] = a

\* The renderer has called back for the request.
Settled(q) == q.outcome.kind # "none"

\* The response is the first-match classification of failure value err:
\* redirect, else 404 page, else 500 page with the error log.
DefaultClassified(q, err) ==
    IF Truthy(err, "url")
    THEN /\ q.res.sent = 1
         /\ q.res.statusCode = StatusFound
         /\ q.res.location = err.url
         /\ q.res.body \notin {config.status404, config.status500,
                               Html(q.used, q.context)}
         /\ q.errlog = <<>>
    ELSE IF "code" \in DOMAIN err /\ err.code = StatusNotFound
    THEN /\ q.res.sent = 1
         /\ q.res.statusCode = StatusNotFound
         /\ q.res.body = config.status404
         /\ q.res.location = NoHeader
         /\ q.errlog = <<>>
    ELSE /\ q.res.sent = 1
         /\ q.res.statusCode = StatusError
         /\ q.res.body = config.status500
         /\ q.res.location = NoHeader
         /\ Len(q.errlog) = 2
         /\ q.errlog[1] = "error during render : " \o q.url

\* C1: every request that reached the render handler and whose renderer has
\* settled has exactly one terminal response, in every configuration and for
\* every outcome of the renderer.
C1_ExactlyOneResponse ==
    \A r \in Reqs :
        Reached(req[r]) /\ Settled(req[r]) => req[r].res.sent = 1

\* C2: the context handed to renderToString is the default context
\* {title: "App", url: req.url} overlaid with the value config.context(req)
\* returns.
C2_ContextIsDefaultsOverlaidWithHook ==
    \A r \in Reqs :
        req[r].used # 0 /\ ContextHook(req[r]).kind = "value" =>
            req[r].context =
                ObjectAssign(DefaultContext(req[r]), ContextHook(req[r]).value)

\* C3: in development, while readyPromise is pending no request that reached
\* the handler has been rendered or answered; the renderer handle is never
\* unset when renderToString is invoked; once readyPromise is resolved and the
\* promise jobs have run, every request that reached the handler has been
\* handed to a renderer; and a request that waited for readiness is rendered
\* by the first renderer.
C3_DevWaitsForReadiness ==
    ~isProd =>
        \A r \in Reqs :
            /\ req[r].pc # "crashed"
            /\ readyPromise = "pending" /\ Reached(req[r]) =>
                   /\ req[r].pc = "waitReady"
                   /\ req[r].used = 0
                   /\ req[r].res.sent = 0
                   /\ req[r].res.contentType = NoHeader
            /\ readyPromise = "resolved" /\ microtasks = <<>> /\ Reached(req[r]) =>
                   req[r].used # 0
            /\ req[r].used # 0 => readyPromise = "resolved"
            /\ req[r].waited /\ req[r].used # 0 => req[r].used = 1

\* C3 witness: a request that waited for readiness was rendered to HTML by
\* the first renderer, and a rebuild has replaced the handle since.
C3_Witness ==
    /\ ~isProd
    /\ renderer = 2
    /\ \E r \in Reqs :
          /\ req[r].waited
          /\ req[r].used = 1
          /\ req[r].outcome.kind = "html"
          /\ req[r].res.sent = 1

\* C4: with config.handleError configured, every render failure is handed to
\* the hook, once, with the failure value, and nothing of the default
\* classification happens: no redirect, no status, no body, no error log.
C4_CustomHandlerReplacesDefault ==
    config.handleError =>
        \A r \in Reqs :
            req[r].outcome.kind = "err" =>
                /\ req[r].hookCalls = <<req[r].outcome.err>>
                /\ req[r].res.sent = 0
                /\ req[r].res.statusCode = StatusOK
                /\ req[r].res.location = NoHeader
                /\ req[r].res.body = NoBody
                /\ req[r].errlog = <<>>

\* C4 witness: the hook was called for a failure that carries both a redirect
\* URL and code 404.
C4_Witness ==
    /\ config.handleError
    /\ \E r \in Reqs :
          /\ req[r].outcome = [kind |-> "err", err |-> ErrRedirect404]
          /\ req[r].hookCalls = <<ErrRedirect404>>

\* C5: when config.context(req) fails with a value, the request is answered as
\* if the renderer had failed with that value: handed to the custom handler
\* when there is one, else redirect / 404 / 500 by the default classification.
C5_HookFailureIsClassified ==
    ContextHook(NewReq).kind = "throw" =>
        \A r \in Reqs :
            Reached(req[r]) /\ req[r].pc = "done" =>
                IF config.handleError
                THEN req[r].hookCalls = <<ContextHook(req[r]).err>>
                ELSE DefaultClassified(req[r], ContextHook(req[r]).err)

\* C6: with no custom handler, the response to a render failure is the
\* first-match classification of the failure value: a redirect to its url
\* (and neither the page nor a status page), else status 404 with
\* config.status404 and no error log, else status 500 with config.status500
\* and an error log line that contains the request URL.
C6_DefaultClassification ==
    ~config.handleError =>
        \A r \in Reqs :
            req[r].outcome.kind = "err" =>
                /\ DefaultClassified(req[r], req[r].outcome.err)
                /\ req[r].hookCalls = <<>>

\* C6 witness: a failure with a redirect URL and code 404 was redirected, and
\* a failure with neither was answered 500 and logged.
C6_Witness ==
    /\ ~config.handleError
    /\ \E r1, r2 \in Reqs :
          /\ req[r1].outcome = [kind |-> "err", err |-> ErrRedirect404]
          /\ req[r1].res.location = "/foo"
          /\ req[r2].outcome = [kind |-> "err", err |-> ErrPlain]
          /\ req[r2].res.statusCode = StatusError
          /\ req[r2].errlog # <<>>

\* C7: when the renderer calls back with HTML h, the response has status 200,
\* content type text/html and body h, is sent once, and no error is logged;
\* the content type is set before anything is written.
C7_SuccessfulRender ==
    \A r \in Reqs :
        /\ req[r].outcome.kind = "html" =>
              /\ req[r].res.sent = 1
              /\ req[r].res.statusCode = StatusOK
              /\ req[r].res.contentType = TextHtml
              /\ req[r].res.body = req[r].outcome.html
              /\ req[r].errlog = <<>>
        /\ req[r].by = "*" => req[r].res.typeAtSend = TextHtml
        /\ req[r].pc \in {"queuedThen", "rendering"} =>
              req[r].res.contentType = TextHtml /\ req[r].res.sent = 0

\* C7 witness: a page was rendered and sent.
C7_Witness ==
    \E r \in Reqs :
        /\ req[r].outcome.kind = "html"
        /\ req[r].res.body = Html(req[r].used, req[r].context)
        /\ req[r].res.sent = 1

C9_ResponseFromUsedRenderer ==
    \A r \in Reqs :
        req[r].outcome.kind = "html" =>
            req[r].res.body = Html(req[r].used, req[r].context)

\* A request is handed to the handle's value of the moment; later steps, a
\* rebuild included, do not change the renderer it was handed to nor the
\* response it was given; in production the handle never changes.
C9_Step ==
    /\ \A r \in Reqs :
          /\ req[r].used = 0 /\ req'[r].used # 0 => req'[r].used = renderer
          /\ req[r].used # 0 => req'[r].used = req[r].used
          /\ req[r].res.sent > 0 => req'[r].res = req[r].res
    /\ isProd => renderer' = renderer /\ renderer = 1

\* C9: each request is rendered by the renderer that was the handle's value
\* when the request read it; a rebuild after that changes neither the renderer
\* used nor the response; requests that read the handle after the rebuild use
\* the new renderer; in production the handle never changes.
C9_RendererCapturedAtInvocation ==
    [] C9_ResponseFromUsedRenderer /\ [][C9_Step]_vars

\* C9 witness: a rebuild replaced the handle while a request handed to
\* renderer 1 was in flight, and a request that read the handle after the
\* rebuild was answered with renderer 2's page.
C9_Witness ==
    \E r1, r2 \in Reqs :
        /\ req[r1].pc = "rendering"
        /\ req[r1].used = 1
        /\ renderer = 2
        /\ req[r2].used = 2
        /\ req[r2].res.body = Html(2, req[r2].context)

\* C10 as stated: every answered request passed through the micro-cache
\* middleware before the handler that produced its response.
C10_CacheWrapsEveryRoute ==
    \A r \in Reqs :
        req[r].res.sent > 0 => Entered(req[r], "microcache")

\* C10 amended: the micro-cache wraps the routes registered after it.  A
\* request answered by the catch-all route passed through the micro-cache
\* middleware before the render handler; a request answered by a static mount
\* was answered without reaching the micro-cache middleware.
C10_CacheWrapsDynamicRouteOnly ==
    \A r \in Reqs :
        /\ Reached(req[r]) => Before(req[r], "microcache", "*")
        /\ req[r].res.sent > 0 /\ req[r].by \notin {"*", "microcache"} =>
              ~Entered(req[r], "microcache")

\* C10 witness: one request was answered by the /dist static mount and
\* another by the render handler.
C10_Witness ==
    \E r1, r2 \in Reqs :
        /\ req[r1].by = "static /dist"
        /\ req[r1].res.sent = 1
        /\ req[r2].by = "*"
        /\ req[r2].res.sent = 1

====
